---- MODULE Spec2Model ----
(***************************************************************************)
(* node-handshake: the Bitcoin message envelope (messages.rs), the version *)
(* and verack messages (vv.rs), the network address codec (network.rs),    *)
(* the checksum and varint helpers (utils.rs) and the handshake            *)
(* (handshake.rs), as state machines.                                      *)
(*                                                                         *)
(* Bytes are the integers 0..255 and a byte vector is a sequence of them.  *)
(* A u32 is the tuple of its 4 base-256 digits and a u64 / i64 the tuple   *)
(* of its 8 base-256 digits, most significant first, so that every         *)
(* fixed-width value keeps its width; i32, u16 and usize values are        *)
(* integers.                                                               *)
(***************************************************************************)
EXTENDS Integers, Sequences, FiniteSets, TLC

VARIABLES
    target_endian,       \* byte order of the compilation target, read by u32::from_ne_bytes
    \* the codec operations, applied step by step to one input
    phase,               \* which operation was applied last
    input,               \* the arguments the operations are applied to
    msg,                 \* the struct built by ::new (BitcoinMessage / VersionMessage)
    bytes,               \* the byte vector produced by serialize / the writer
    out,                 \* the value returned by deserialize / the reader
    \* one call of handshake::perform_handshake
    pc,                  \* position in perform_handshake
    args,                \* network, sender, receiver, user_agent, start_height
    stream,              \* the TcpStream owned by the call
    version_message,     \* handshake.rs:26
    vrs_msg_payload,     \* handshake.rs:29
    bitcoin_message,     \* handshake.rs:32
    serialized_btc_msg,  \* handshake.rs:34
    wire,                \* the peer's side: connects seen, buffers written to it, its reply
    connect_res,         \* what TcpStream::connect returned (handshake.rs:23)
    write_res,           \* what stream.write_all returned (handshake.rs:38)
    res_version_msg,     \* handshake.rs:41, the 24-byte reply buffer
    read_res,            \* what stream.read_exact returned (handshake.rs:43)
    stderr,              \* lines printed by eprintln!
    result,              \* how the call ended: none, a returned Ok / Err, or a panic
    \* locals of the perform_handshake of main.rs
    serialized_version_msg,  \* main.rs:30
    resp_version_buffer,     \* main.rs:36
    verack_message,          \* main.rs:41
    serialized_verack_msg,   \* main.rs:42
    resp_verack_buffer       \* main.rs:46

codec_vars == <<phase, input, msg, bytes, out>>
hs_vars == <<pc, args, stream, version_message, vrs_msg_payload, bitcoin_message,
             serialized_btc_msg, wire, connect_res, write_res, res_version_msg, read_res,
             stderr, result>>
main_vars == <<serialized_version_msg, resp_version_buffer, verack_message,
               serialized_verack_msg, resp_verack_buffer>>
vars == <<target_endian, codec_vars, hs_vars, main_vars>>

None == "none"

(***************************************************************************)
(* Bounds of the model and the sample values the inputs are drawn from.    *)
(***************************************************************************)
\* payloads given to BitcoinMessage::new have at most this many bytes
MaxPayloadLen == 2
PayloadBytes == {0, 239, 255}

RECURSIVE SeqsUpTo(_, _)
SeqsUpTo(S, n) ==
    IF n = 0 THEN {<<>>}
    ELSE LET shorter == SeqsUpTo(S, n - 1)
         IN  shorter \cup {Append(s, b) : s \in {t \in shorter : Len(t) = n - 1}, b \in S}

\* the payload of messages.rs:123 and every short payload over PayloadBytes
Payloads == SeqsUpTo(PayloadBytes, MaxPayloadLen) \cup {<<239, 171, 239, 223>>}

Endians == {"little", "big"}

(***************************************************************************)
(* Fixed-width integers and their byte orders (std, byteorder).            *)
(***************************************************************************)
Reverse(s) == [i \in 1..Len(s) |-> s[Len(s) + 1 - i]]
Zeros(n) == [i \in 1..n |-> 0]

\* u32 / u64: digits, most significant first
from_le_bytes(b) == Reverse(b)
from_be_bytes(b) == b
\* uN::from_ne_bytes reads the bytes in the byte order of the compilation target
from_ne_bytes(b) == IF target_endian = "little" THEN from_le_bytes(b) ELSE from_be_bytes(b)
to_le_bytes(v) == Reverse(v)
\* `n as u32` for a usize n
as_u32_cast(n) == <<(n \div 16777216) % 256, (n \div 65536) % 256, (n \div 256) % 256, n % 256>>
\* `v as usize` for a u32 v that fits the model's integers
as_usize(v) == ((v[1] * 256 + v[2]) * 256 + v[3]) * 256 + v[4]
\* i32::to_le_bytes / write_i32::<LittleEndian>: two's complement
i32_to_le_bytes(n) == <<n % 256, (n \div 256) % 256, (n \div 65536) % 256, (n \div 16777216) % 256>>
\* read_i32::<LittleEndian>
i32_from_le_bytes(b) ==
    LET low == (b[3] * 256 + b[2]) * 256 + b[1]
    IN  IF b[4] < 128 THEN b[4] * 16777216 + low ELSE (b[4] - 256) * 16777216 + low
\* write_u16::<LittleEndian> and read_u16::<LittleEndian>
u16_to_le_bytes(n) == <<n % 256, (n \div 256) % 256>>
u16_from_le_bytes(b) == b[2] * 256 + b[1]

(***************************************************************************)
(* std::io::Cursor<Vec<u8>>: the vector and the read position.             *)
(***************************************************************************)
Cursor_new(v) == [data |-> v, pos |-> 0]
Remaining(c) == Len(c.data) - c.pos
\* read_exact and the byteorder readers fail with UnexpectedEof on a short read
CanRead(c, n) == Remaining(c) >= n
Peek(c, n) == SubSeq(c.data, c.pos + 1, c.pos + n)
Advance(c, n) == [c EXCEPT !.pos = c.pos + n]

Ok(v) == [ok |-> TRUE, val |-> v]
Err(kind, text) == [ok |-> FALSE, kind |-> kind, text |-> text]
Eof == Err("UnexpectedEof", "failed to fill whole buffer")

(***************************************************************************)
(* network.rs                                                              *)
(***************************************************************************)
Networks == {"Mainnet", "Regtest", "Testnet3"}

\* BitcoinNetwork::magic
magic(network) ==
    CASE network = "Mainnet"  -> <<249, 190, 180, 217>>
      [] network = "Regtest"  -> <<250, 191, 181, 218>>
      [] network = "Testnet3" -> <<11, 17, 9, 7>>

\* BitcoinNetwork::as_u32
as_u32(network) == from_le_bytes(magic(network))

\* std::net::SocketAddr
SocketAddrV4(ip, port) == [kind |-> "V4", ip |-> ip, port |-> port]
SocketAddrV6(segments, port, flowinfo, scope_id) ==
    [kind |-> "V6", segments |-> segments, port |-> port, flowinfo |-> flowinfo, scope_id |-> scope_id]

\* Ipv6Addr::from([u8; 16]): the 16 octets in network order, two per segment
Ipv6Addr_from(b) == [i \in 1..8 |-> b[2 * i - 1] * 256 + b[2 * i]]

RECURSIVE write_segments(_, _)
\* network.rs:51-53, the loop over add_v6.ip().segments()
write_segments(payload, segments) ==
    IF Len(segments) = 0 THEN payload
    ELSE write_segments(payload \o u16_to_le_bytes(Head(segments)), Tail(segments))

\* an encoder that leaves out the 10 zero bytes of the IPv4-mapped form
add_serialize_addr_unpadded(payload, services, add) ==
    IF add.kind = "V4"
    THEN payload \o to_le_bytes(services) \o <<255, 255>> \o add.ip \o u16_to_le_bytes(add.port)
    ELSE write_segments(payload \o to_le_bytes(services), add.segments) \o u16_to_le_bytes(add.port)

\* add_serialize_addr: the payload after the call (every write to a Vec succeeds)
add_serialize_addr(payload, services, add) ==
    LET with_services == payload \o to_le_bytes(services)
        with_ip ==
            IF add.kind = "V4"
            THEN with_services \o Zeros(10) \o <<255, 255>> \o add.ip
            ELSE write_segments(with_services, add.segments)
    IN  with_ip \o u16_to_le_bytes(add.port)

\* read_deserialized_add: the Result and the cursor after the call
read_deserialized_add(cursor) ==
    IF ~CanRead(cursor, 8) THEN [res |-> Eof, cursor |-> cursor]
    ELSE LET c1 == Advance(cursor, 8)
         IN  IF ~CanRead(c1, 16) THEN [res |-> Eof, cursor |-> c1]
             ELSE LET addr_buf == Peek(c1, 16)
                      c2 == Advance(c1, 16)
                      mapped == SubSeq(addr_buf, 1, 10) = Zeros(10) /\ SubSeq(addr_buf, 11, 12) = <<255, 255>>
                  IN  IF ~CanRead(c2, 2) THEN [res |-> Eof, cursor |-> c2]
                      ELSE LET port == u16_from_le_bytes(Peek(c2, 2))
                               addr == IF mapped
                                       THEN SocketAddrV4(SubSeq(addr_buf, 13, 16), port)
                                       ELSE SocketAddrV6(Ipv6Addr_from(addr_buf), port, 0, 0)
                           IN  [res |-> Ok(addr), cursor |-> Advance(c2, 2)]

(***************************************************************************)
(* utils.rs                                                                *)
(***************************************************************************)
\* a u64 (8 digits) compared with 0x7F, and shifted right by 7 bits
gt_0x7F(value) == SubSeq(value, 1, 7) # Zeros(7) \/ value[8] > 127
\* a shift by a whole byte instead of 7 bits
shr8(value) == <<0>> \o SubSeq(value, 1, 7)

shr7(value) == [i \in 1..8 |-> (IF i = 1 THEN 0 ELSE (value[i - 1] % 128) * 2) + (value[i] \div 128)]

RECURSIVE write_varint(_, _)
\* write_varint: the payload after the call; `value as u8` is the last digit
write_varint(payload, value) ==
    IF gt_0x7F(value)
    THEN write_varint(Append(payload, 128 + (value[8] % 128)), shr7(value))
    ELSE Append(payload, value[8])

CHECKSUM_SIZE == 4

(***************************************************************************)
(* openssl::sha::sha256 (FIPS 180-4).  A 32-bit word is the pair           *)
(* <<high 16 bits, low 16 bits>>; the bitwise operations go nibble by      *)
(* nibble through a table.                                                 *)
(***************************************************************************)
Pow2 == <<1, 2, 4, 8, 16, 32, 64, 128, 256, 512, 1024, 2048, 4096, 8192, 16384, 32768, 65536>>
Bit(n, k) == (n \div Pow2[k + 1]) % 2
XorNibble == [a \in 1..16 |-> [b \in 1..16 |->
    ((Bit(a - 1, 3) + Bit(b - 1, 3)) % 2) * 8 + ((Bit(a - 1, 2) + Bit(b - 1, 2)) % 2) * 4
    + ((Bit(a - 1, 1) + Bit(b - 1, 1)) % 2) * 2 + ((Bit(a - 1, 0) + Bit(b - 1, 0)) % 2)] \o <<>>] \o <<>>
AndNibble == [a \in 1..16 |-> [b \in 1..16 |->
    (Bit(a - 1, 3) * Bit(b - 1, 3)) * 8 + (Bit(a - 1, 2) * Bit(b - 1, 2)) * 4
    + (Bit(a - 1, 1) * Bit(b - 1, 1)) * 2 + (Bit(a - 1, 0) * Bit(b - 1, 0))] \o <<>>] \o <<>>
Op16(T, p, q) ==
    (T[(p \div 4096) + 1][(q \div 4096) + 1] * 4096 + T[((p \div 256) % 16) + 1][((q \div 256) % 16) + 1] * 256)
    + (T[((p \div 16) % 16) + 1][((q \div 16) % 16) + 1] * 16 + T[(p % 16) + 1][(q % 16) + 1])
Xor(a, b) == <<Op16(XorNibble, a[1], b[1]), Op16(XorNibble, a[2], b[2])>>
And(a, b) == <<Op16(AndNibble, a[1], b[1]), Op16(AndNibble, a[2], b[2])>>
Not(a) == <<65535 - a[1], 65535 - a[2]>>
\* rotate right by n, 0 < n < 16
Rot16(a, n) == <<(a[2] % Pow2[n + 1]) * Pow2[17 - n] + (a[1] \div Pow2[n + 1]),
                 (a[1] % Pow2[n + 1]) * Pow2[17 - n] + (a[2] \div Pow2[n + 1])>>
Rotr(a, n) == IF n < 16 THEN Rot16(a, n) ELSE IF n = 16 THEN <<a[2], a[1]>> ELSE Rot16(<<a[2], a[1]>>, n - 16)
\* shift right by n, 0 < n < 16
Shr(a, n) == <<a[1] \div Pow2[n + 1], (a[1] % Pow2[n + 1]) * Pow2[17 - n] + (a[2] \div Pow2[n + 1])>>
Add(a, b) ==
    LET lo == a[2] + b[2]
    IN  <<(a[1] + b[1] + (lo \div 65536)) % 65536, lo % 65536>>

K256 == <<
    <<17034, 12184>>, <<28983, 17553>>, <<46528, 64463>>, <<59829, 56229>>,
    <<14678, 49755>>, <<23025, 4593>>, <<37439, 33444>>, <<43804, 24277>>,
    <<55303, 43672>>, <<4739, 23297>>, <<9265, 34238>>, <<21772, 32195>>,
    <<29374, 23924>>, <<32990, 45566>>, <<39900, 1703>>, <<49563, 61812>>,
    <<58523, 27073>>, <<61374, 18310>>, <<4033, 40390>>, <<9228, 41420>>,
    <<11753, 11375>>, <<19060, 33962>>, <<23728, 43484>>, <<30457, 35034>>,
    <<38974, 20818>>, <<43057, 50797>>, <<45059, 10184>>, <<48985, 32711>>,
    <<50912, 3059>>, <<54695, 37191>>, <<1738, 25425>>, <<5161, 10599>>,
    <<10167, 2693>>, <<11803, 8504>>, <<19756, 28156>>, <<21304, 3347>>,
    <<25866, 29524>>, <<30314, 2747>>, <<33218, 51502>>, <<37490, 11397>>,
    <<41663, 59553>>, <<43034, 26187>>, <<49739, 35696>>, <<51052, 20899>>,
    <<53650, 59417>>, <<54937, 1572>>, <<62478, 13701>>, <<4202, 41072>>,
    <<6564, 49430>>, <<7735, 27656>>, <<10056, 30540>>, <<13488, 48309>>,
    <<14620, 3251>>, <<20184, 43594>>, <<23452, 51791>>, <<26670, 28659>>,
    <<29839, 33518>>, <<30885, 25455>>, <<33992, 30740>>, <<36039, 520>>,
    <<37054, 65530>>, <<42064, 27883>>, <<48889, 41975>>, <<50801, 30962>>
>>
H256 == <<
    <<27145, 58983>>, <<47975, 44677>>, <<15470, 62322>>, <<42319, 62778>>,
    <<20750, 21119>>, <<39685, 26764>>, <<8067, 55723>>, <<23520, 52505>>
>>

Ch(e, f, g) == Xor(And(e, f), And(Not(e), g))
Maj(a, b, c) == Xor(Xor(And(a, b), And(a, c)), And(b, c))
BSig0(a) == Xor(Xor(Rotr(a, 2), Rotr(a, 13)), Rotr(a, 22))
BSig1(e) == Xor(Xor(Rotr(e, 6), Rotr(e, 11)), Rotr(e, 25))
SSig0(w) == Xor(Xor(Rotr(w, 7), Rotr(w, 18)), Shr(w, 3))
SSig1(w) == Xor(Xor(Rotr(w, 17), Rotr(w, 19)), Shr(w, 10))

RECURSIVE Schedule(_)
Schedule(w) ==
    IF Len(w) = 64 THEN w
    ELSE LET t == Len(w) + 1
         IN  Schedule(Append(w, Add(Add(SSig1(w[t - 2]), w[t - 7]), Add(SSig0(w[t - 15]), w[t - 16]))))

\* one round on <<a, b, c, d, e, f, g, h, round number>>
RoundWith(s, t1, t2) == <<Add(t1, t2), s[1], s[2], s[3], Add(s[4], t1), s[5], s[6], s[7], s[9] + 1>>
Round(s, w) ==
    RoundWith(s,
              Add(Add(Add(s[8], BSig1(s[5])), Add(Ch(s[5], s[6], s[7]), K256[s[9]])), w[s[9]]),
              Add(BSig0(s[1]), Maj(s[1], s[2], s[3])))

RECURSIVE Rounds(_, _)
Rounds(s, w) == IF s[9] > Len(w) THEN s ELSE Rounds(Round(s, w), w)

BlockWords(block) ==
    [i \in 1..16 |-> <<block[4 * i - 3] * 256 + block[4 * i - 2], block[4 * i - 1] * 256 + block[4 * i]>>]
FeedForward(h, s) ==
    <<Add(h[1], s[1]), Add(h[2], s[2]), Add(h[3], s[3]), Add(h[4], s[4]),
      Add(h[5], s[5]), Add(h[6], s[6]), Add(h[7], s[7]), Add(h[8], s[8])>>
Compress(h, block) == FeedForward(h, Rounds(h \o <<1>>, Schedule(BlockWords(block))))

\* the message, 0x80, zeros, and the bit length as a 64-bit big-endian number
Pad(data) ==
    data \o <<128>> \o Zeros((119 - Len(data)) % 64) \o Zeros(5)
    \o <<((8 * Len(data)) \div 65536) % 256, ((8 * Len(data)) \div 256) % 256, (8 * Len(data)) % 256>>

RECURSIVE Blocks(_, _)
Blocks(h, m) == IF Len(m) = 0 THEN h ELSE Blocks(Compress(h, SubSeq(m, 1, 64)), SubSeq(m, 65, Len(m)))

WordBytes(w) == <<w[1] \div 256, w[1] % 256, w[2] \div 256, w[2] % 256>>
Digest(h) ==
    WordBytes(h[1]) \o WordBytes(h[2]) \o WordBytes(h[3]) \o WordBytes(h[4])
    \o WordBytes(h[5]) \o WordBytes(h[6]) \o WordBytes(h[7]) \o WordBytes(h[8])
sha256(data) == Digest(Blocks(H256, Pad(data)))

\* utils.rs:35-38: the first CHECKSUM_SIZE bytes of the double hash
double_hash_prefix(data) == SubSeq(sha256(sha256(data)), 1, CHECKSUM_SIZE)

(***************************************************************************)
(* vv.rs                                                                   *)
(***************************************************************************)
PROTOCOL_VERSION == 70001
NODE_NETWORK_SERVICE == 1
COMMAND_SIZE == 12

\* a small number as a u64
u64_of(n) == Zeros(6) \o <<(n \div 256) % 256, n % 256>>

\* String::as_bytes of the user agent strings the model uses (ASCII)
as_bytes(s) ==
    CASE s = "" -> <<>>
      [] s = "37" -> <<51, 55>>
      [] s = "/rust-bitcoin:0.1/" -> <<47, 114, 117, 115, 116, 45, 98, 105, 116, 99, 111, 105, 110, 58, 48, 46, 49, 47>>
      [] s = "/my-bitcoin-client:0.1.0/" -> <<47, 109, 121, 45, 98, 105, 116, 99, 111, 105, 110, 45, 99, 108, 105, 101, 110, 116, 58, 48, 46, 49, 46, 48, 47>>

Commands == {"Version", "Verack"}

\* Command::as_str, as ASCII bytes: "version" and "verack"
as_str(command) ==
    IF command = "Version" THEN <<118, 101, 114, 115, 105, 111, 110>>
    ELSE <<118, 101, 114, 97, 99, 107>>

\* Command::as_fixed_length_vec
as_fixed_length_vec(command) ==
    LET b == as_str(command)
    IN  IF Len(b) > COMMAND_SIZE
        THEN Err("InvalidInput", "Command string is too long")
        ELSE Ok(b \o Zeros(COMMAND_SIZE - Len(b)))

\* VersionMessage::new; timestamp and nonce are what calculate_timestamp()
\* and generate_nonce() return
VersionMessage_new(receiver, sender, user_agent, start_height, relay, timestamp, nonce) ==
    [version |-> PROTOCOL_VERSION,
     services |-> u64_of(NODE_NETWORK_SERVICE),
     timestamp |-> timestamp,
     receiver |-> receiver,
     sender |-> sender,
     nonce |-> nonce,
     user_agent |-> user_agent,
     start_height |-> start_height,
     relay |-> relay]

\* VersionMessage::serialize: the vector inside the Ok (no write to a Vec fails)
VersionMessage_serialize(self) ==
    LET header == i32_to_le_bytes(self.version) \o to_le_bytes(self.services) \o to_le_bytes(self.timestamp)
        with_receiver == add_serialize_addr(header, self.services, self.receiver)
        with_sender == add_serialize_addr(with_receiver, self.services, self.sender)
    IN  with_sender
        \o to_le_bytes(self.nonce)
        \o <<0>>                                   \* "allocation for the user agent"
        \o i32_to_le_bytes(self.start_height)
        \o <<IF self.relay THEN 1 ELSE 0>>
        \o <<0>>                                   \* "allocation for the relay"

\* VersionMessage::deserialize
VersionMessage_deserialize(m) ==
    LET c0 == Cursor_new(m)
    IN  IF ~CanRead(c0, 4) THEN Eof
        ELSE
        LET version == i32_from_le_bytes(Peek(c0, 4))
            c1 == Advance(c0, 4)
        IN  IF version < PROTOCOL_VERSION THEN Err("InvalidData", "Unsupported protocol version")
            ELSE IF ~CanRead(c1, 16) THEN Eof
            ELSE
            LET services == from_le_bytes(Peek(c1, 8))
                timestamp == from_le_bytes(Peek(Advance(c1, 8), 8))
                r == read_deserialized_add(Advance(c1, 16))
            IN  IF ~r.res.ok THEN r.res
                ELSE
                LET s == read_deserialized_add(r.cursor)
                    c2 == s.cursor
                IN  IF ~s.res.ok THEN s.res
                    ELSE IF ~CanRead(c2, 1 + 8 + 4 + 1) THEN Eof
                    ELSE
                    LET user_agent_byte == Peek(c2, 1)[1]
                        nonce == from_le_bytes(Peek(Advance(c2, 1), 8))
                        start_height == i32_from_le_bytes(Peek(Advance(c2, 9), 4))
                        relay == Peek(Advance(c2, 13), 1)[1] > 0
                    IN  Ok([version |-> version,
                            services |-> services,
                            timestamp |-> timestamp,
                            receiver |-> r.res.val,
                            sender |-> s.res.val,
                            nonce |-> nonce,
                            user_agent |-> ToString(user_agent_byte),
                            start_height |-> start_height,
                            relay |-> relay])

(***************************************************************************)
(* The arguments perform_handshake is called with, and what the clock and  *)
(* the random generator return during the call.                            *)
(***************************************************************************)
HsSenders == {SocketAddrV4(<<127, 0, 0, 1>>, 18443), SocketAddrV6(<<0, 0, 0, 0, 0, 0, 0, 1>>, 18443, 0, 0)}
HsReceivers == {SocketAddrV4(<<127, 0, 0, 1>>, 18444)}
HsUserAgents == {"/my-bitcoin-client:0.1.0/"}
HsStartHeights == {0}
\* 1700000000 seconds
Timestamps == {<<0, 0, 0, 0, 101, 83, 241, 0>>}
Nonces == {<<18, 52, 86, 120, 154, 188, 222, 37>>, <<255, 255, 255, 255, 255, 255, 255, 255>>}

HsVersionMessages ==
    {VersionMessage_new(r, s, ua, h, FALSE, t, n) :
        r \in HsReceivers, s \in HsSenders, ua \in HsUserAgents, h \in HsStartHeights,
        t \in Timestamps, n \in Nonces}

(***************************************************************************)
(* utils.rs, calculate_checksum.  The double hash of each payload the      *)
(* model hands to it is computed once and kept; any other input is hashed  *)
(* on the spot.                                                            *)
(***************************************************************************)
HashedOnce == Payloads \cup {VersionMessage_serialize(m) : m \in HsVersionMessages}
DoubleHashPrefix == [d \in HashedOnce |-> double_hash_prefix(d)]

\* calculate_checksum
calculate_checksum(data) ==
    IF data \in HashedOnce THEN DoubleHashPrefix[data] ELSE double_hash_prefix(data)

(***************************************************************************)
(* vv.rs, VerackMessage                                                    *)
(***************************************************************************)
\* VerackMessage::new
VerackMessage_new(network, resp_command) ==
    [magic |-> as_u32(network),
     command |-> as_fixed_length_vec(resp_command).val,
     length |-> as_u32_cast(0),
     checksum |-> from_ne_bytes(calculate_checksum(<<>>))]

\* VerackMessage::deserialize_and_verify
VerackMessage_deserialize_and_verify(m, network, resp_command) ==
    LET c0 == Cursor_new(m)
    IN  IF ~CanRead(c0, 4) THEN Eof
        ELSE
        LET magic_read == from_le_bytes(Peek(c0, 4))
            c1 == Advance(c0, 4)
        IN  IF magic_read # as_u32(network)
            THEN Err("InvalidData", "Invalid magic number in verack response")
            ELSE IF ~CanRead(c1, COMMAND_SIZE) THEN Eof
            ELSE
            LET command == Peek(c1, COMMAND_SIZE)
                verack_command == as_fixed_length_vec(resp_command).val
                c2 == Advance(c1, COMMAND_SIZE)
            IN  IF command # verack_command
                THEN Err("InvalidData", "Invalid command in verack response")
                ELSE IF ~CanRead(c2, 4) THEN Eof
                ELSE IF ~CanRead(Advance(c2, 4), CHECKSUM_SIZE) THEN Eof
                ELSE Ok([magic |-> magic_read,
                         command |-> command,
                         length |-> from_le_bytes(Peek(c2, 4)),
                         checksum |-> from_ne_bytes(Peek(Advance(c2, 4), CHECKSUM_SIZE))])

(***************************************************************************)
(* messages.rs                                                             *)
(***************************************************************************)
\* BitcoinMessage::new
BitcoinMessage_new(command, payload, network) ==
    [magic |-> as_u32(network),
     command |-> as_fixed_length_vec(command).val,
     length |-> as_u32_cast(Len(payload)),
     checksum |-> from_ne_bytes(calculate_checksum(payload)),
     payload |-> payload]

\* BitcoinMessage::serialize: the vector inside the Ok (no write to a Vec fails)
BitcoinMessage_serialize(self) ==
    to_le_bytes(self.magic) \o self.command \o to_le_bytes(self.length)
    \o to_le_bytes(self.checksum) \o self.payload

\* a comparison that lets every stored checksum pass
checksum_differs_never(checksum, calculated_checksum) == FALSE

\* messages.rs:98-101, the comparison of the stored and the computed checksum
checksum_differs(checksum, calculated_checksum) == checksum # calculated_checksum

\* BitcoinMessage::deserialize
BitcoinMessage_deserialize(m) ==
    LET c0 == Cursor_new(m)
    IN  IF ~CanRead(c0, 4 + COMMAND_SIZE + 4 + CHECKSUM_SIZE) THEN Eof
        ELSE
        LET magic_read == from_le_bytes(Peek(c0, 4))
            command == Peek(Advance(c0, 4), COMMAND_SIZE)
            size_read == from_le_bytes(Peek(Advance(c0, 4 + COMMAND_SIZE), 4))
            checksum == Peek(Advance(c0, 8 + COMMAND_SIZE), CHECKSUM_SIZE)
            c1 == Advance(c0, 8 + COMMAND_SIZE + CHECKSUM_SIZE)
        IN  \* a payload size of 2^24 bytes or more is past the end of every vector of the model
            IF size_read[1] # 0 \/ ~CanRead(c1, as_usize(size_read)) THEN Eof
            ELSE
            LET payload_size == as_usize(size_read)
                payload == Peek(c1, payload_size)
            IN  IF checksum_differs(checksum, calculate_checksum(payload))
                THEN Err("InvalidData", "Invalid checksum")
                ELSE Ok([magic |-> magic_read,
                         length |-> as_u32_cast(payload_size),
                         command |-> command,
                         checksum |-> from_ne_bytes(checksum),
                         payload |-> payload])

(***************************************************************************)
(* handshake.rs: the socket perform_handshake owns, the results of its I/O *)
(* calls and the ways the call can end.                                    *)
(***************************************************************************)
\* a result variable before its call was made
NotCalled == [ok |-> FALSE, kind |-> "NotCalled", text |-> ""]

\* no TcpStream exists (before connect, or connect failed)
NoStream == [opened |-> FALSE, read_open |-> FALSE, write_open |-> FALSE]

\* the call has not ended / returned a value / panicked with a message
Running == [outcome |-> "running"]
Returned(value) == [outcome |-> "returned", value |-> value]
Panicked(message, err) == [outcome |-> "panicked", message |-> message, err |-> err]

\* how the operating system can refuse the connect and the write
ConnectErrors == {"ConnectionRefused", "TimedOut"}
WriteErrors == {"BrokenPipe", "ConnectionReset"}
\* how the peer ends its side after its reply bytes
PeerEnds == {"close", "reset"}

\* TcpStream::connect(sender), handshake.rs:23
TcpStream_connect(outcome) ==
    IF outcome = "Ok"
    THEN Ok([opened |-> TRUE, read_open |-> TRUE, write_open |-> TRUE])
    ELSE Err(outcome, "connect")

\* stream.write_all(&serialized_btc_msg), handshake.rs:38
write_all(outcome) == IF outcome = "Ok" THEN Ok("()") ELSE Err(outcome, "write")

\* a read that reports a full buffer whatever arrived
read_exact_always_ok(buf_len, reply, peer_end) == Ok("()")

\* stream.read_exact(&mut res_version_msg), handshake.rs:43: Ok once the
\* buffer is full, UnexpectedEof when the peer closed before that
read_exact(buf_len, reply, peer_end) ==
    IF Len(reply) >= buf_len THEN Ok("()")
    ELSE IF peer_end = "close" THEN Eof
    ELSE Err("ConnectionReset", "Connection reset by peer")

\* the buffer after read_exact: the bytes that arrived, over the zeros
fill(buf, reply) ==
    [i \in 1..Len(buf) |-> IF i <= Len(reply) THEN reply[i] ELSE buf[i]]

\* stream.shutdown(Shutdown::Both), handshake.rs:73
shutdown_both(s) == [s EXCEPT !.read_open = FALSE, !.write_open = FALSE]

\* a scope end that leaves the descriptor open
drop_stream_leaked(s) == s

\* `stream` goes out of scope (return, `?` or unwinding of a panic): the
\* descriptor is closed, which ends both directions of the connection
drop_stream(s) == [s EXCEPT !.read_open = FALSE, !.write_open = FALSE]

\* handshake.rs:56-69, the line eprintln! prints for a read error
read_error_line(kind) ==
    CASE kind = "UnexpectedEof" -> "Unexpected end of file"
      [] kind = "WouldBlock"    -> "Operation would block"
      [] OTHER                  -> "Failed to read the version message answer"

\* handshake.rs:23-76, the statements of perform_handshake in program order
StepOrder ==
    <<"connect", "new_version", "serialize_version", "new_message", "serialize_message",
      "write_all", "flush", "read_exact", "verify", "report", "shutdown", "return", "done">>

\* the place of a statement in that order
Rank(step) == CHOOSE i \in 1..Len(StepOrder) : StepOrder[i] = step

(***************************************************************************)
(* Initial values of the variables a specification does not use.           *)
(***************************************************************************)
CodecIdle ==
    /\ phase = "idle" /\ input = None /\ msg = None /\ bytes = <<>> /\ out = None

MainIdle ==
    /\ serialized_version_msg = <<>> /\ resp_version_buffer = Zeros(24)
    /\ verack_message = None /\ serialized_verack_msg = <<>>
    /\ resp_verack_buffer = Zeros(24)

HsIdle ==
    /\ MainIdle
    /\ pc = "idle" /\ args = None /\ stream = NoStream /\ version_message = None
    /\ vrs_msg_payload = <<>> /\ bitcoin_message = None /\ serialized_btc_msg = <<>>
    /\ wire = [connects |-> <<>>, sent |-> <<>>, reply |-> <<>>]
    /\ connect_res = NotCalled /\ write_res = NotCalled /\ res_version_msg = Zeros(24)
    /\ read_res = NotCalled /\ stderr = <<>> /\ result = Running

(***************************************************************************)
(* SpecEnvelope: BitcoinMessage::new, serialize and deserialize applied to *)
(* every command, network and payload, with the stored checksum of the     *)
(* serialized message left intact or one of its bits flipped.              *)
(***************************************************************************)
InitEnvelope ==
    /\ target_endian \in Endians
    /\ phase = "input"
    /\ input \in [command : Commands, payload : Payloads, network : Networks]
    /\ msg = None /\ bytes = <<>> /\ out = None
    /\ HsIdle

\* messages.rs:38-52
MessageNew ==
    /\ phase = "input"
    /\ msg' = BitcoinMessage_new(input.command, input.payload, input.network)
    /\ phase' = "new"
    /\ UNCHANGED <<main_vars, target_endian, input, bytes, out, hs_vars>>

\* messages.rs:59-71
MessageSerialize ==
    /\ phase = "new"
    /\ bytes' = BitcoinMessage_serialize(msg)
    /\ phase' = "serialized"
    /\ UNCHANGED <<main_vars, target_endian, input, msg, out, hs_vars>>

FlipBit(b, k) == IF Bit(b, k) = 1 THEN b - Pow2[k + 1] ELSE b + Pow2[k + 1]

\* one bit of the 4 stored checksum bytes (offsets 20..23) is flipped in transit
TamperChecksum ==
    /\ phase = "serialized"
    /\ \E bit \in 0..(8 * CHECKSUM_SIZE - 1) :
          LET at == 4 + COMMAND_SIZE + 4 + (bit \div 8) + 1
          IN  bytes' = [bytes EXCEPT ![at] = FlipBit(bytes[at], bit % 8)]
    /\ phase' = "tampered"
    /\ UNCHANGED <<main_vars, target_endian, input, msg, out, hs_vars>>

\* messages.rs:72-110
MessageDeserialize ==
    /\ phase \in {"serialized", "tampered"}
    /\ out' = BitcoinMessage_deserialize(bytes)
    /\ phase' = IF phase = "tampered" THEN "deserialized_tampered" ELSE "deserialized"
    /\ UNCHANGED <<main_vars, target_endian, input, msg, bytes, hs_vars>>

NextEnvelope == MessageNew \/ MessageSerialize \/ TamperChecksum \/ MessageDeserialize

SpecEnvelope == InitEnvelope /\ [][NextEnvelope]_vars

\* C6: a message whose stored checksum had one bit flipped is never decoded:
\* BitcoinMessage::deserialize returns the "Invalid checksum" error for it.
C6_TamperedChecksumRejected ==
    phase = "deserialized_tampered" =>
        /\ ~out.ok
        /\ out.kind = "InvalidData"
        /\ out.text = "Invalid checksum"

C6_Witness ==
    /\ phase = "deserialized_tampered"
    /\ Len(input.payload) > 0
    /\ ~out.ok /\ out.text = "Invalid checksum"

\* the magic constants of the specification's wire format table
SpecMagic(network) ==
    CASE network = "Mainnet"  -> <<249, 190, 180, 217>>     \* f9 be b4 d9
      [] network = "Testnet3" -> <<11, 17, 9, 7>>           \* 0b 11 09 07
      [] network = "Regtest"  -> <<250, 191, 181, 218>>     \* fa bf b5 da

\* C7: the serialized message is magic, the command zero-padded to 12 bytes,
\* the payload length as little-endian u32, calculate_checksum(payload) in
\* the order the hash produced it, and the payload.
C7_SerializedLayout ==
    phase = "serialized" =>
        /\ Len(bytes) = 24 + Len(input.payload)
        /\ SubSeq(bytes, 1, 4) = SpecMagic(input.network)
        /\ SubSeq(bytes, 5, 16) = as_str(input.command) \o Zeros(12 - Len(as_str(input.command)))
        /\ SubSeq(bytes, 17, 20) = <<Len(input.payload) % 256, (Len(input.payload) \div 256) % 256, 0, 0>>
        /\ SubSeq(bytes, 21, 24) = calculate_checksum(input.payload)
        /\ SubSeq(bytes, 25, Len(bytes)) = input.payload

\* C8: deserialize(serialize(new(command, payload, network))) succeeds and
\* gives back magic, length, payload, command and checksum.
C8_EnvelopeRoundTrip ==
    phase = "deserialized" =>
        /\ out.ok
        /\ out.val.magic = as_u32(input.network)
        /\ as_usize(out.val.length) = Len(input.payload)
        /\ out.val.payload = input.payload
        /\ out.val.command = msg.command
        /\ out.val.checksum = msg.checksum

(***************************************************************************)
(* SpecAddress: add_serialize_addr appends an address to a payload and     *)
(* read_deserialized_add reads it back from a cursor placed where the      *)
(* address starts.                                                         *)
(***************************************************************************)
Ipv4Samples == {<<127, 0, 0, 1>>, <<192, 168, 1, 20>>}
\* ::1, 2001:db8::ff00:42:8329, 101:101:101:101:101:101:101:101, ::ffff:7f00:1
Ipv6Samples ==
    {<<0, 0, 0, 0, 0, 0, 0, 1>>, <<8193, 3512, 0, 0, 0, 65280, 66, 33577>>,
     <<257, 257, 257, 257, 257, 257, 257, 257>>, <<0, 0, 0, 0, 0, 65535, 32512, 1>>}
PortSamples == {0, 8080, 18444, 65535}
ServiceSamples ==
    {u64_of(0), u64_of(1), u64_of(1033), <<1, 2, 3, 4, 5, 6, 7, 8>>,
     <<255, 255, 255, 255, 255, 255, 255, 255>>}
PrefixPayloads == {<<>>, <<1, 2, 3>>}
AddrSamples ==
    {SocketAddrV4(ip, p) : ip \in Ipv4Samples, p \in PortSamples}
    \cup {SocketAddrV6(sg, p, 0, 0) : sg \in Ipv6Samples, p \in PortSamples}

InitAddress ==
    /\ target_endian \in Endians
    /\ phase = "input"
    /\ input \in [payload : PrefixPayloads, services : ServiceSamples, add : AddrSamples]
    /\ msg = None /\ bytes = <<>> /\ out = None
    /\ HsIdle

\* network.rs:34-58
AddrSerialize ==
    /\ phase = "input"
    /\ bytes' = add_serialize_addr(input.payload, input.services, input.add)
    /\ phase' = "addr_written"
    /\ UNCHANGED <<main_vars, target_endian, input, msg, out, hs_vars>>

\* network.rs:61-87
AddrDeserialize ==
    /\ phase = "addr_written"
    /\ out' = read_deserialized_add([data |-> bytes, pos |-> Len(input.payload)])
    /\ phase' = "addr_read"
    /\ UNCHANGED <<main_vars, target_endian, input, msg, bytes, hs_vars>>

NextAddress == AddrSerialize \/ AddrDeserialize

SpecAddress == InitAddress /\ [][NextAddress]_vars

\* C10: read_deserialized_add gives back the address and port that
\* add_serialize_addr wrote, for IPv4 and for IPv6 addresses.  (The services
\* are read and dropped, network.rs:62: the returned value is the address.)
C10_AddressRoundTrip ==
    phase = "addr_read" =>
        /\ out.res.ok
        /\ out.res.val = input.add

\* C11: the last two bytes of the 26-byte address encoding are the port in
\* big-endian (network) byte order, and the decoder reads the port from them
\* in that order, for IPv4 and IPv6 addresses.
C11_PortBigEndian ==
    /\ phase = "addr_written" =>
          SubSeq(bytes, Len(bytes) - 1, Len(bytes)) = <<input.add.port \div 256, input.add.port % 256>>
    /\ phase = "addr_read" =>
          /\ out.res.ok
          /\ out.res.val.port = bytes[Len(bytes) - 1] * 256 + bytes[Len(bytes)]

\* C12: add_serialize_addr appends exactly 26 bytes (8 services bytes, 16
\* address bytes, 2 port bytes) and keeps the bytes already in the payload;
\* the 16 address bytes of an IPv4 address are 10 zeros, ff ff, the 4 octets.
C12_AddressAppends26Bytes ==
    phase \in {"addr_written", "addr_read"} =>
        /\ Len(bytes) = Len(input.payload) + 26
        /\ SubSeq(bytes, 1, Len(input.payload)) = input.payload
        /\ input.add.kind = "V4" =>
              SubSeq(bytes, Len(input.payload) + 9, Len(input.payload) + 24)
                  = Zeros(10) \o <<255, 255>> \o input.add.ip

\* an IPv4 address appended to a payload that already holds bytes
C12_Witness ==
    /\ phase = "addr_written"
    /\ input.add.kind = "V4"
    /\ input.payload # <<>>
    /\ Len(bytes) = Len(input.payload) + 26

(***************************************************************************)
(* SpecVersion: VersionMessage::new, serialize and deserialize.            *)
(***************************************************************************)
VersionAddrs == {SocketAddrV4(<<127, 0, 0, 1>>, 18333), SocketAddrV6(<<0, 0, 0, 0, 0, 0, 0, 1>>, 8333, 0, 0)}
UserAgents == {"", "/rust-bitcoin:0.1/", "37"}
StartHeights == {0, 1, -1, 700000}

InitVersion ==
    /\ target_endian \in Endians
    /\ phase = "input"
    /\ input \in [receiver : VersionAddrs, sender : VersionAddrs, user_agent : UserAgents,
                  start_height : StartHeights, relay : BOOLEAN,
                  timestamp : Timestamps, nonce : Nonces]
    /\ msg = None /\ bytes = <<>> /\ out = None
    /\ HsIdle

\* vv.rs:72-90
VersionNew ==
    /\ phase = "input"
    /\ msg' = VersionMessage_new(input.receiver, input.sender, input.user_agent,
                                 input.start_height, input.relay, input.timestamp, input.nonce)
    /\ phase' = "new"
    /\ UNCHANGED <<main_vars, target_endian, input, bytes, out, hs_vars>>

\* vv.rs:95-118
VersionSerialize ==
    /\ phase = "new"
    /\ bytes' = VersionMessage_serialize(msg)
    /\ phase' = "version_written"
    /\ UNCHANGED <<main_vars, target_endian, input, msg, out, hs_vars>>

\* vv.rs:121-155
VersionDeserialize ==
    /\ phase = "version_written"
    /\ out' = VersionMessage_deserialize(bytes)
    /\ phase' = "version_read"
    /\ UNCHANGED <<main_vars, target_endian, input, msg, bytes, hs_vars>>

NextVersion == VersionNew \/ VersionSerialize \/ VersionDeserialize

SpecVersion == InitVersion /\ [][NextVersion]_vars

\* C9: VersionMessage::deserialize(serialize(m)) succeeds and reproduces
\* protocol version, services, receiver, sender, user_agent, start_height
\* and relay of every m built by VersionMessage::new.
C9_VersionRoundTrip ==
    phase = "version_read" =>
        /\ out.ok
        /\ out.val.version = msg.version
        /\ out.val.services = msg.services
        /\ out.val.receiver = msg.receiver
        /\ out.val.sender = msg.sender
        /\ out.val.user_agent = msg.user_agent
        /\ out.val.start_height = msg.start_height
        /\ out.val.relay = msg.relay

\* C13: the bytes of VersionMessage::serialize are, in this order and with
\* nothing else: i32 version, u64 services, i64 timestamp, the 26-byte
\* receiver address, the 26-byte sender address, u64 nonce, the user agent as
\* a varint length and that many bytes, i32 start_height, one relay byte.
C13_VersionLayout ==
    phase = "version_written" =>
        bytes = i32_to_le_bytes(msg.version)
                \o to_le_bytes(msg.services)
                \o to_le_bytes(msg.timestamp)
                \o add_serialize_addr(<<>>, msg.services, msg.receiver)
                \o add_serialize_addr(<<>>, msg.services, msg.sender)
                \o to_le_bytes(msg.nonce)
                \o write_varint(<<>>, u64_of(Len(as_bytes(msg.user_agent))))
                \o as_bytes(msg.user_agent)
                \o i32_to_le_bytes(msg.start_height)
                \o <<IF msg.relay THEN 1 ELSE 0>>

(***************************************************************************)
(* SpecHandshake: one call of perform_handshake, one action per statement. *)
(* The environment chooses whether connect and write succeed and what the  *)
(* peer replies before it ends its side of the connection.                 *)
(***************************************************************************)
ReplyPayloads == {<<>>, <<239, 171, 239, 223>>}
TruncatedLens == {0, 10}

ReplyChecksums(p) ==
    {calculate_checksum(p),
     [calculate_checksum(p) EXCEPT ![1] = FlipBit(calculate_checksum(p)[1], 0)]}

FullReplies ==
    UNION {{magic(n) \o as_fixed_length_vec(c).val \o to_le_bytes(as_u32_cast(Len(p))) \o ck \o p :
                n \in Networks, c \in Commands, ck \in ReplyChecksums(p)} :
           p \in ReplyPayloads}

PeerReplies == FullReplies \cup {SubSeq(r, 1, k) : r \in FullReplies, k \in TruncatedLens}

InitHandshake ==
    /\ target_endian \in Endians
    /\ CodecIdle
    /\ pc = "connect"
    /\ args \in [network : Networks, sender : HsSenders, receiver : HsReceivers,
                 user_agent : HsUserAgents, start_height : HsStartHeights]
    /\ stream = NoStream /\ version_message = None
    /\ vrs_msg_payload = <<>> /\ bitcoin_message = None /\ serialized_btc_msg = <<>>
    /\ wire = [connects |-> <<>>, sent |-> <<>>, reply |-> <<>>]
    /\ connect_res = NotCalled /\ write_res = NotCalled /\ res_version_msg = Zeros(24)
    /\ read_res = NotCalled /\ stderr = <<>> /\ result = Running
    /\ MainIdle

\* handshake.rs:23, let mut stream = TcpStream::connect(sender)?;
Connect ==
    /\ pc = "connect"
    /\ \E outcome \in {"Ok"} \cup ConnectErrors :
          /\ connect_res' = TcpStream_connect(outcome)
          /\ wire' = [wire EXCEPT !.connects = Append(@, args.sender)]
          /\ IF outcome = "Ok"
             THEN /\ stream' = TcpStream_connect(outcome).val
                  /\ pc' = "new_version"
                  /\ UNCHANGED result
             ELSE /\ result' = Returned(TcpStream_connect(outcome))
                  /\ pc' = "done"
                  /\ UNCHANGED stream
    /\ UNCHANGED <<main_vars, target_endian, codec_vars, args, version_message, vrs_msg_payload,
                   bitcoin_message, serialized_btc_msg, write_res, res_version_msg,
                   read_res, stderr>>

\* handshake.rs:26
NewVersionMessage ==
    /\ pc = "new_version"
    /\ \E timestamp \in Timestamps, nonce \in Nonces :
          version_message' = VersionMessage_new(args.receiver, args.sender, args.user_agent,
                                                args.start_height, FALSE, timestamp, nonce)
    /\ pc' = "serialize_version"
    /\ UNCHANGED <<main_vars, target_endian, codec_vars, args, stream, vrs_msg_payload, bitcoin_message,
                   serialized_btc_msg, wire, connect_res, write_res, res_version_msg,
                   read_res, stderr, result>>

\* handshake.rs:29; serialize writes to a Vec and returns Ok, `?` never leaves
SerializeVersion ==
    /\ pc = "serialize_version"
    /\ vrs_msg_payload' = VersionMessage_serialize(version_message)
    /\ pc' = "new_message"
    /\ UNCHANGED <<main_vars, target_endian, codec_vars, args, stream, version_message, bitcoin_message,
                   serialized_btc_msg, wire, connect_res, write_res, res_version_msg,
                   read_res, stderr, result>>

\* handshake.rs:32
NewBitcoinMessage ==
    /\ pc = "new_message"
    /\ bitcoin_message' = BitcoinMessage_new("Version", vrs_msg_payload, args.network)
    /\ pc' = "serialize_message"
    /\ UNCHANGED <<main_vars, target_endian, codec_vars, args, stream, version_message, vrs_msg_payload,
                   serialized_btc_msg, wire, connect_res, write_res, res_version_msg,
                   read_res, stderr, result>>

\* handshake.rs:34-36; serialize returns Ok, expect never panics
SerializeBitcoinMessage ==
    /\ pc = "serialize_message"
    /\ serialized_btc_msg' = BitcoinMessage_serialize(bitcoin_message)
    /\ pc' = "write_all"
    /\ UNCHANGED <<main_vars, target_endian, codec_vars, args, stream, version_message, vrs_msg_payload,
                   bitcoin_message, wire, connect_res, write_res, res_version_msg,
                   read_res, stderr, result>>

\* handshake.rs:38, stream.write_all(&serialized_btc_msg).unwrap();
WriteAll ==
    /\ pc = "write_all"
    /\ \E outcome \in {"Ok"} \cup WriteErrors :
          /\ write_res' = write_all(outcome)
          /\ wire' = [wire EXCEPT !.sent = Append(@, serialized_btc_msg)]
          /\ IF outcome = "Ok"
             THEN /\ pc' = "flush"
                  /\ UNCHANGED <<stream, result>>
             ELSE /\ result' = Panicked("called Result::unwrap() on an Err value",
                                        write_all(outcome))
                  /\ stream' = drop_stream(stream)
                  /\ pc' = "done"
    /\ UNCHANGED <<main_vars, target_endian, codec_vars, args, version_message, vrs_msg_payload,
                   bitcoin_message, serialized_btc_msg, connect_res, res_version_msg,
                   read_res, stderr>>

\* handshake.rs:39 and 41; TcpStream::flush returns Ok(()) and does nothing
Flush ==
    /\ pc = "flush"
    /\ res_version_msg' = Zeros(24)
    /\ pc' = "read_exact"
    /\ UNCHANGED <<main_vars, target_endian, codec_vars, args, stream, version_message, vrs_msg_payload,
                   bitcoin_message, serialized_btc_msg, wire, connect_res, write_res,
                   read_res, stderr, result>>

\* handshake.rs:43, match stream.read_exact(&mut res_version_msg)
ReadExact ==
    /\ pc = "read_exact"
    /\ \E reply \in PeerReplies, peer_end \in PeerEnds :
          /\ wire' = [wire EXCEPT !.reply = reply]
          /\ read_res' = read_exact(Len(res_version_msg), reply, peer_end)
          /\ res_version_msg' = fill(res_version_msg, reply)
          /\ pc' = IF read_exact(Len(res_version_msg), reply, peer_end).ok
                   THEN "verify" ELSE "report"
    /\ UNCHANGED <<main_vars, target_endian, codec_vars, args, stream, version_message, vrs_msg_payload,
                   bitcoin_message, serialized_btc_msg, connect_res, write_res, stderr,
                   result>>

\* handshake.rs:44-53, VerackMessage::deserialize_and_verify(..).unwrap();
VerifyReply ==
    /\ pc = "verify"
    /\ IF VerackMessage_deserialize_and_verify(res_version_msg, args.network, "Version").ok
       THEN /\ pc' = "shutdown"
            /\ UNCHANGED <<stream, result>>
       ELSE /\ result' = Panicked("called Result::unwrap() on an Err value",
                   VerackMessage_deserialize_and_verify(res_version_msg, args.network, "Version"))
            /\ stream' = drop_stream(stream)
            /\ pc' = "done"
    /\ UNCHANGED <<main_vars, target_endian, codec_vars, args, version_message, vrs_msg_payload,
                   bitcoin_message, serialized_btc_msg, wire, connect_res, write_res,
                   res_version_msg, read_res, stderr>>

\* handshake.rs:54-70, the Err arm prints and goes on
ReportReadError ==
    /\ pc = "report"
    /\ stderr' = Append(stderr, read_error_line(read_res.kind))
    /\ pc' = "shutdown"
    /\ UNCHANGED <<main_vars, target_endian, codec_vars, args, stream, version_message, vrs_msg_payload,
                   bitcoin_message, serialized_btc_msg, wire, connect_res, write_res,
                   res_version_msg, read_res, result>>

\* handshake.rs:73, let _ = stream.shutdown(Shutdown::Both);
ShutdownStream ==
    /\ pc = "shutdown"
    /\ stream' = shutdown_both(stream)
    /\ pc' = "return"
    /\ UNCHANGED <<main_vars, target_endian, codec_vars, args, version_message, vrs_msg_payload,
                   bitcoin_message, serialized_btc_msg, wire, connect_res, write_res,
                   res_version_msg, read_res, stderr, result>>

\* handshake.rs:75-76, Ok(())
ReturnOk ==
    /\ pc = "return"
    /\ result' = Returned(Ok("()"))
    /\ stream' = drop_stream(stream)
    /\ pc' = "done"
    /\ UNCHANGED <<main_vars, target_endian, codec_vars, args, version_message, vrs_msg_payload,
                   bitcoin_message, serialized_btc_msg, wire, connect_res, write_res,
                   res_version_msg, read_res, stderr>>

NextHandshake ==
    \/ Connect
    \/ NewVersionMessage
    \/ SerializeVersion
    \/ NewBitcoinMessage
    \/ SerializeBitcoinMessage
    \/ WriteAll
    \/ Flush
    \/ ReadExact
    \/ VerifyReply
    \/ ReportReadError
    \/ ShutdownStream
    \/ ReturnOk

SpecHandshake == InitHandshake /\ [][NextHandshake]_vars

\* C1: whenever perform_handshake has ended after opening its stream, by a
\* return or by a panic, the stream is closed for reading and for writing.
C1_StreamClosedOnEveryExit ==
    (pc = "done" /\ stream.opened) => (~stream.read_open /\ ~stream.write_open)

\* a call that ended by the panic of a failed reply validation, stream closed
C1_Witness ==
    /\ pc = "done" /\ stream.opened
    /\ result.outcome = "panicked" /\ read_res.ok
    /\ ~stream.read_open /\ ~stream.write_open

\* C2: a complete reply with the wrong magic or the wrong command makes
\* perform_handshake return an Err to its caller.
C2_MismatchReturnsErr ==
    (/\ pc = "done" /\ read_res.ok
     /\ \/ SubSeq(res_version_msg, 1, 4) # magic(args.network)
        \/ SubSeq(res_version_msg, 5, 4 + COMMAND_SIZE) # as_fixed_length_vec("Version").val)
    => (result.outcome = "returned" /\ ~result.value.ok)

\* C3: when the peer closes before 24 bytes arrived, perform_handshake does
\* not panic and returns an Err.
C3_ShortReplyReturnsErr ==
    (pc = "done" /\ read_res = Eof)
    => (result.outcome = "returned" /\ ~result.value.ok)

\* C4: a failed connect or write makes perform_handshake return that I/O
\* error, after one connect and at most one write; nothing is sent after a
\* failed connect.
C4_IoFailureReturnsErr ==
    /\ (pc = "done" /\ ~connect_res.ok)
        => (result = Returned(connect_res) /\ Len(wire.connects) = 1 /\ wire.sent = <<>>)
    /\ (pc = "done" /\ ~write_res.ok /\ write_res # NotCalled)
        => (result = Returned(write_res) /\ Len(wire.connects) = 1 /\ Len(wire.sent) = 1)

\* C5: perform_handshake does not return Ok on a complete reply whose stored
\* checksum is not the checksum of the reply's payload.
C5_NoSuccessOnBadChecksum ==
    (/\ pc = "done" /\ read_res.ok
     /\ SubSeq(wire.reply, 21, 24) # calculate_checksum(SubSeq(wire.reply, 25, Len(wire.reply))))
    => result # Returned(Ok("()"))

\* C15: the steps of a call occur in the order Init, VersionSent,
\* AwaitingReply, Completed or Failed: control only moves forward (no step is
\* entered twice), the envelope is written once, in full, before the reply
\* is read, nothing of the reply is read before the write and the flush, the
\* reply is validated only once all 24 bytes were read, and a call that got
\* past the write has written exactly one envelope.
C15_StepsInOrder ==
    /\ [][Rank(pc') > Rank(pc)]_vars
    /\ [][wire'.sent # wire.sent =>
            (pc = "write_all" /\ wire.sent = <<>> /\ wire'.sent = <<serialized_btc_msg>>)]_vars
    /\ [][(read_res' # read_res \/ wire'.reply # wire.reply \/ res_version_msg' # res_version_msg)
            => (pc \in {"flush", "read_exact"} /\ write_res.ok /\ wire.sent = <<serialized_btc_msg>>)]_vars
    /\ [](read_res # NotCalled => Rank(pc) > Rank("read_exact"))
    /\ [](pc = "verify" =>
            (read_res.ok /\ Len(wire.reply) >= 24 /\ res_version_msg = SubSeq(wire.reply, 1, 24)))
    /\ [](Len(wire.sent) <= 1)
    /\ []((Rank(pc) > Rank("write_all") /\ connect_res.ok) => Len(wire.sent) = 1)

\* a call that went through every step and returned Ok
C15_Witness ==
    /\ pc = "done"
    /\ result = Returned(Ok("()"))
    /\ read_res.ok
    /\ wire.sent = <<serialized_btc_msg>>
    /\ Len(wire.reply) >= 24

\* C16: the address perform_handshake connects to is the one encoded as the
\* receiver address (payload bytes 20..46) of the version envelope it sends,
\* and the sender argument is the one encoded as the sender address (46..72).
C16_ConnectsToReceiver ==
    Len(wire.sent) > 0 =>
        /\ SubSeq(wire.sent[1], 24 + 21, 24 + 46)
             = add_serialize_addr(<<>>, version_message.services, wire.connects[1])
        /\ SubSeq(wire.sent[1], 24 + 47, 24 + 72)
             = add_serialize_addr(<<>>, version_message.services, args.sender)

(***************************************************************************)
(* SpecVarint: write_varint appends a value to a payload and read_varint   *)
(* reads it back from a cursor placed where the value starts.  The source  *)
(* holds no read_varint; it is the decoder the specification describes:    *)
(* it consumes one byte at a time until a byte with the high bit clear,    *)
(* and fails when the input ends before that or the value needs more than  *)
(* 64 bits.                                                                *)
(***************************************************************************)
RECURSIVE varint_groups(_, _)
\* the 7-bit groups of the bytes up to the first one with the high bit clear
varint_groups(c, groups) ==
    IF ~CanRead(c, 1) THEN [ok |-> FALSE, groups |-> groups, cursor |-> c]
    ELSE IF Peek(c, 1)[1] >= 128
         THEN varint_groups(Advance(c, 1), Append(groups, Peek(c, 1)[1] % 128))
         ELSE [ok |-> TRUE, groups |-> Append(groups, Peek(c, 1)[1]), cursor |-> Advance(c, 1)]

\* bit j (0 = least significant) of the value whose 7-bit groups are given
group_bit(groups, j) ==
    IF (j \div 7) + 1 > Len(groups) THEN 0 ELSE Bit(groups[(j \div 7) + 1], j % 7)

\* the u64 with these 7-bit groups, least significant group first
u64_of_groups(groups) ==
    [i \in 1..8 |->
        group_bit(groups, 8 * (8 - i)) + 2 * group_bit(groups, 8 * (8 - i) + 1)
        + 4 * group_bit(groups, 8 * (8 - i) + 2) + 8 * group_bit(groups, 8 * (8 - i) + 3)
        + 16 * group_bit(groups, 8 * (8 - i) + 4) + 32 * group_bit(groups, 8 * (8 - i) + 5)
        + 64 * group_bit(groups, 8 * (8 - i) + 6) + 128 * group_bit(groups, 8 * (8 - i) + 7)]

\* the groups hold more than 64 bits
overflows_u64(groups) ==
    \/ Len(groups) > 10
    \/ Len(groups) = 10 /\ groups[10] > 1

read_varint_result(scan) ==
    IF ~scan.ok \/ overflows_u64(scan.groups)
    THEN [res |-> Err("InvalidData", "MalformedVarint"), cursor |-> scan.cursor]
    ELSE [res |-> Ok(u64_of_groups(scan.groups)), cursor |-> scan.cursor]

\* read_varint: the Result and the cursor after the call
read_varint(cursor) == read_varint_result(varint_groups(cursor, <<>>))

\* 0, 1, 127, 128, 255, 256, 300, 16383, 16384, 65535, 2^21 - 1, 2^21, 2^32,
\* 2^63 - 1, 2^63 and u64::MAX
VarintValues ==
    {u64_of(0), u64_of(1), u64_of(127), u64_of(128), u64_of(255), u64_of(256), u64_of(300),
     u64_of(16383), u64_of(16384), u64_of(65535),
     <<0, 0, 0, 0, 0, 31, 255, 255>>, <<0, 0, 0, 0, 0, 32, 0, 0>>, <<0, 0, 0, 1, 0, 0, 0, 0>>,
     <<127, 255, 255, 255, 255, 255, 255, 255>>, <<128, 0, 0, 0, 0, 0, 0, 0>>,
     <<255, 255, 255, 255, 255, 255, 255, 255>>}

InitVarint ==
    /\ target_endian \in Endians
    /\ phase = "input"
    /\ input \in [payload : PrefixPayloads, value : VarintValues]
    /\ msg = None /\ bytes = <<>> /\ out = None
    /\ HsIdle

\* utils.rs:20-26
WriteVarint ==
    /\ phase = "input"
    /\ bytes' = write_varint(input.payload, input.value)
    /\ phase' = "varint_written"
    /\ UNCHANGED <<main_vars, target_endian, input, msg, out, hs_vars>>

ReadVarint ==
    /\ phase = "varint_written"
    /\ out' = read_varint([data |-> bytes, pos |-> Len(input.payload)])
    /\ phase' = "varint_read"
    /\ UNCHANGED <<main_vars, target_endian, input, msg, bytes, hs_vars>>

NextVarint == WriteVarint \/ ReadVarint

SpecVarint == InitVarint /\ [][NextVarint]_vars

\* C14: write_varint appends bytes of which all but the last have the high
\* bit set and the last has it clear, and decoding them as little-endian
\* base-128 gives back the value.
C14_VarintRoundTrip ==
    /\ phase \in {"varint_written", "varint_read"} =>
          /\ Len(bytes) > Len(input.payload)
          /\ SubSeq(bytes, 1, Len(input.payload)) = input.payload
          /\ \A i \in (Len(input.payload) + 1)..(Len(bytes) - 1) : bytes[i] >= 128
          /\ bytes[Len(bytes)] < 128
    /\ phase = "varint_read" =>
          /\ out.res.ok
          /\ out.res.val = input.value
          /\ out.cursor.pos = Len(bytes)

\* u64::MAX written as 10 bytes and read back
C14_Witness ==
    /\ phase = "varint_read"
    /\ input.value = <<255, 255, 255, 255, 255, 255, 255, 255>>
    /\ Len(bytes) = Len(input.payload) + 10
    /\ out.res.ok
    /\ out.res.val = input.value

(***************************************************************************)
(* SpecMain: one call of the perform_handshake of main.rs, which sends the *)
(* version message, reads 24 bytes, sends a verack envelope and reads 24   *)
(* bytes again, ignoring what it reads.  VersionMessage::create is called  *)
(* by main.rs and tested in message.rs but defined in no source file; it   *)
(* is modelled from its test (message.rs:116-141): the serialized message  *)
(* is the version envelope of the given network.                           *)
(***************************************************************************)
\* VersionMessage::create(network, receiver, sender, user_agent, start_height, relay)
VersionMessage_create(network, receiver, sender, user_agent, start_height, relay, timestamp, nonce) ==
    Ok([network |-> network,
        message |-> VersionMessage_new(receiver, sender, user_agent, start_height, relay,
                                       timestamp, nonce)])

\* serialize of the message built by VersionMessage::create
created_version_serialize(self) ==
    BitcoinMessage_serialize(
        BitcoinMessage_new("Version", VersionMessage_serialize(self.message), self.network))

\* what the peer sends after the verack reached it: nothing or a 24-byte header
MainSecondReplies == {<<>>} \cup {r \in FullReplies : Len(r) = 24}

\* the bytes the first read left in the socket
unread(reply, first_read) == IF first_read.ok THEN SubSeq(reply, 25, Len(reply)) ELSE <<>>

InitMain ==
    /\ target_endian \in Endians
    /\ CodecIdle
    /\ pc = "m_connect"
    /\ args \in [network : Networks, sender : HsSenders, receiver : HsReceivers,
                 user_agent : HsUserAgents, start_height : HsStartHeights]
    /\ stream = NoStream /\ version_message = None
    /\ vrs_msg_payload = <<>> /\ bitcoin_message = None /\ serialized_btc_msg = <<>>
    /\ wire = [connects |-> <<>>, sent |-> <<>>, reply |-> <<>>]
    /\ connect_res = NotCalled /\ write_res = NotCalled /\ res_version_msg = Zeros(24)
    /\ read_res = NotCalled /\ stderr = <<>> /\ result = Running
    /\ MainIdle

\* main.rs:23, let mut stream = TcpStream::connect(sender)?;
MainConnect ==
    /\ pc = "m_connect"
    /\ \E outcome \in {"Ok"} \cup ConnectErrors :
          /\ connect_res' = TcpStream_connect(outcome)
          /\ wire' = [wire EXCEPT !.connects = Append(@, args.sender)]
          /\ IF outcome = "Ok"
             THEN /\ stream' = TcpStream_connect(outcome).val
                  /\ pc' = "m_create"
                  /\ UNCHANGED result
             ELSE /\ result' = Returned(TcpStream_connect(outcome))
                  /\ pc' = "done"
                  /\ UNCHANGED stream
    /\ UNCHANGED <<main_vars, target_endian, codec_vars, args, version_message, vrs_msg_payload,
                   bitcoin_message, serialized_btc_msg, write_res, res_version_msg,
                   read_res, stderr>>

\* main.rs:26-27
MainCreateVersion ==
    /\ pc = "m_create"
    /\ \E timestamp \in Timestamps, nonce \in Nonces :
          version_message' = VersionMessage_create(args.network, args.receiver, args.sender,
                                 args.user_agent, args.start_height, FALSE, timestamp, nonce).val
    /\ pc' = "m_serialize"
    /\ UNCHANGED <<main_vars, target_endian, codec_vars, args, stream, vrs_msg_payload,
                   bitcoin_message, serialized_btc_msg, wire, connect_res, write_res,
                   res_version_msg, read_res, stderr, result>>

\* main.rs:30
MainSerializeVersion ==
    /\ pc = "m_serialize"
    /\ serialized_version_msg' = created_version_serialize(version_message)
    /\ pc' = "m_write"
    /\ UNCHANGED <<resp_version_buffer, verack_message, serialized_verack_msg,
                   resp_verack_buffer, target_endian, codec_vars, args, stream, version_message,
                   vrs_msg_payload, bitcoin_message, serialized_btc_msg, wire, connect_res,
                   write_res, res_version_msg, read_res, stderr, result>>

\* main.rs:33, stream.write_all(&serialized_version_msg)?;
MainWriteVersion ==
    /\ pc = "m_write"
    /\ \E outcome \in {"Ok"} \cup WriteErrors :
          /\ write_res' = write_all(outcome)
          /\ wire' = [wire EXCEPT !.sent = Append(@, serialized_version_msg)]
          /\ IF outcome = "Ok"
             THEN /\ pc' = "m_flush"
                  /\ UNCHANGED <<stream, result>>
             ELSE /\ result' = Returned(write_all(outcome))
                  /\ stream' = drop_stream(stream)
                  /\ pc' = "done"
    /\ UNCHANGED <<main_vars, target_endian, codec_vars, args, version_message, vrs_msg_payload,
                   bitcoin_message, serialized_btc_msg, connect_res, res_version_msg,
                   read_res, stderr>>

\* main.rs:34 and 36; TcpStream::flush returns Ok(()) and does nothing
MainFlushVersion ==
    /\ pc = "m_flush"
    /\ resp_version_buffer' = Zeros(24)
    /\ pc' = "m_read"
    /\ UNCHANGED <<serialized_version_msg, verack_message, serialized_verack_msg,
                   resp_verack_buffer, target_endian, codec_vars, args, stream, version_message,
                   vrs_msg_payload, bitcoin_message, serialized_btc_msg, wire, connect_res,
                   write_res, res_version_msg, read_res, stderr, result>>

\* main.rs:38, let _ = stream.read_exact(&mut resp_version_buffer);
MainReadVersionReply ==
    /\ pc = "m_read"
    /\ \E reply \in PeerReplies, peer_end \in PeerEnds :
          /\ wire' = [wire EXCEPT !.reply = reply]
          /\ read_res' = read_exact(Len(resp_version_buffer), reply, peer_end)
          /\ resp_version_buffer' = fill(resp_version_buffer, reply)
    /\ pc' = "m_verack_new"
    /\ UNCHANGED <<serialized_version_msg, verack_message, serialized_verack_msg,
                   resp_verack_buffer, target_endian, codec_vars, args, stream, version_message,
                   vrs_msg_payload, bitcoin_message, serialized_btc_msg, connect_res,
                   write_res, res_version_msg, stderr, result>>

\* main.rs:41
MainNewVerack ==
    /\ pc = "m_verack_new"
    /\ verack_message' = BitcoinMessage_new("Verack", <<>>, "Regtest")
    /\ pc' = "m_verack_serialize"
    /\ UNCHANGED <<serialized_version_msg, resp_version_buffer, serialized_verack_msg,
                   resp_verack_buffer, target_endian, codec_vars, args, stream, version_message,
                   vrs_msg_payload, bitcoin_message, serialized_btc_msg, wire, connect_res,
                   write_res, res_version_msg, read_res, stderr, result>>

\* main.rs:42; serialize writes to a Vec and returns Ok, `?` never leaves
MainSerializeVerack ==
    /\ pc = "m_verack_serialize"
    /\ serialized_verack_msg' = BitcoinMessage_serialize(verack_message)
    /\ pc' = "m_verack_write"
    /\ UNCHANGED <<serialized_version_msg, resp_version_buffer, verack_message,
                   resp_verack_buffer, target_endian, codec_vars, args, stream, version_message,
                   vrs_msg_payload, bitcoin_message, serialized_btc_msg, wire, connect_res,
                   write_res, res_version_msg, read_res, stderr, result>>

\* main.rs:43, stream.write_all(&serialized_verack_msg)?;
MainWriteVerack ==
    /\ pc = "m_verack_write"
    /\ \E outcome \in {"Ok"} \cup WriteErrors :
          /\ write_res' = write_all(outcome)
          /\ wire' = [wire EXCEPT !.sent = Append(@, serialized_verack_msg)]
          /\ IF outcome = "Ok"
             THEN /\ pc' = "m_verack_flush"
                  /\ UNCHANGED <<stream, result>>
             ELSE /\ result' = Returned(write_all(outcome))
                  /\ stream' = drop_stream(stream)
                  /\ pc' = "done"
    /\ UNCHANGED <<main_vars, target_endian, codec_vars, args, version_message, vrs_msg_payload,
                   bitcoin_message, serialized_btc_msg, connect_res, res_version_msg,
                   read_res, stderr>>

\* main.rs:44 and 46
MainFlushVerack ==
    /\ pc = "m_verack_flush"
    /\ resp_verack_buffer' = Zeros(24)
    /\ pc' = "m_verack_read"
    /\ UNCHANGED <<serialized_version_msg, resp_version_buffer, verack_message,
                   serialized_verack_msg, target_endian, codec_vars, args, stream,
                   version_message, vrs_msg_payload, bitcoin_message, serialized_btc_msg, wire,
                   connect_res, write_res, res_version_msg, read_res, stderr, result>>

\* main.rs:48, let _ = stream.read_exact(&mut resp_verack_buffer); the peer
\* sends more only if it had not ended its side before
MainReadVerackReply ==
    /\ pc = "m_verack_read"
    /\ \E more \in (IF read_res.ok THEN MainSecondReplies ELSE {<<>>}), peer_end \in PeerEnds :
          /\ wire' = [wire EXCEPT !.reply = @ \o more]
          /\ read_res' = read_exact(Len(resp_verack_buffer),
                                    unread(wire.reply, read_res) \o more, peer_end)
          /\ resp_verack_buffer' = fill(resp_verack_buffer, unread(wire.reply, read_res) \o more)
    /\ pc' = "m_return"
    /\ UNCHANGED <<serialized_version_msg, resp_version_buffer, verack_message,
                   serialized_verack_msg, target_endian, codec_vars, args, stream,
                   version_message, vrs_msg_payload, bitcoin_message, serialized_btc_msg,
                   connect_res, write_res, res_version_msg, stderr, result>>

\* main.rs:50-51, Ok(())
MainReturnOk ==
    /\ pc = "m_return"
    /\ result' = Returned(Ok("()"))
    /\ stream' = drop_stream(stream)
    /\ pc' = "done"
    /\ UNCHANGED <<main_vars, target_endian, codec_vars, args, version_message, vrs_msg_payload,
                   bitcoin_message, serialized_btc_msg, wire, connect_res, write_res,
                   res_version_msg, read_res, stderr>>

NextMain ==
    \/ MainConnect
    \/ MainCreateVersion
    \/ MainSerializeVersion
    \/ MainWriteVersion
    \/ MainFlushVersion
    \/ MainReadVersionReply
    \/ MainNewVerack
    \/ MainSerializeVerack
    \/ MainWriteVerack
    \/ MainFlushVerack
    \/ MainReadVerackReply
    \/ MainReturnOk

SpecMain == InitMain /\ [][NextMain]_vars

\* C17: every envelope a handshake attempt has written to the stream, the
\* version envelope and the verack envelope, starts with the magic of the
\* network perform_handshake was called with.
C17_EveryEnvelopeCarriesNetworkMagic ==
    \A i \in 1..Len(wire.sent) : SubSeq(wire.sent[i], 1, 4) = magic(args.network)

====
